---- MODULE Spec2Model ----
(***************************************************************************)
(* Model of the DXF Compound Section Analyzer: the bulge-arc discretizer   *)
(* (src/main.py: distance, arc_points, arc_points_from_bulge), the         *)
(* geometry loader (src/analysis/geometry.py) and the session of main().   *)
(*                                                                         *)
(* Python floats are modelled as fixed-point integers with six decimal     *)
(* digits: a length of 10.0 is 10000000, an angle of pi radians is         *)
(* 3141592, a bulge of 0.2679 is 267900.  Every arithmetic step of the     *)
(* source is carried out in that representation, with the rounding a       *)
(* fixed-point unit produces; positions therefore agree with the Python    *)
(* results up to Tol.  Where the float computation is exact (theta = pi    *)
(* for bulge 1, cos and sin at multiples of pi/2) the model is exact too.  *)
(* At an exact tie of the segment count (|theta| = pi and a                *)
(* degrees_per_segment dividing 180) float rounding of start_angle + theta *)
(* can leave the Python sweep a hair under pi and the count one short;     *)
(* the model computes the tie exactly.                                     *)
(***************************************************************************)
EXTENDS Integers, Sequences, FiniteSets, TLC

VARIABLES call, ret, prev

\* The Streamlit session of main(): st.session_state (section_components,
\* section, properties), the files of st.session_state.temp_dir, the two
\* import sliders, the message the last script run displayed, and the last
\* call of create_compound_geometry with its outcome.  uuids counts the
\* uuid4 values drawn, analyses the analyses that succeeded; added and removed
\* record the uuids of the components added and removed so far.
VARIABLES components, files, uuids, added, removed,
          slider_spline_delta, slider_degrees_per_segment,
          section, properties, analyses, message, cg

arcVars == <<call, ret, prev>>

sessVars == <<components, files, uuids, added, removed,
              slider_spline_delta, slider_degrees_per_segment,
              section, properties, analyses, message, cg>>

vars == <<arcVars, sessVars>>

(***************************************************************************)
(* Number representation.                                                  *)
(***************************************************************************)

\* One unit (1.0) in fixed point.
Scale == 1000000

\* Square root of Scale: the split point of a double-word multiplication.
Half == 1000

\* math.pi in fixed point, truncated so that PI \div 4 is exact.
PI == 3141592

\* Largest coordinate error, in 1e-6 units, that the fixed-point evaluation of
\* one arc can accumulate; "within tolerance" means within Tol.
Tol == 200

Abs(x) == IF x < 0 THEN -x ELSE x

Max(x, y) == IF x >= y THEN x ELSE y

Sign(x) == IF x < 0 THEN -1 ELSE 1

\* a / b rounded to the nearest integer, b > 0.
RDiv(a, b) == (2 * a + b) \div (2 * b)

\* (a * b) / Scale for a, b >= 0, without forming a * b.
MulP(a, b) ==
    LET a1 == a \div Half
        a0 == a % Half
        b1 == b \div Half
        b0 == b % Half
    IN  a1 * b1 + RDiv(a1 * b0 + a0 * b1 + RDiv(a0 * b0, Half), Half)

\* Float multiplication a * b.
Mul(a, b) ==
    IF (a >= 0) = (b >= 0) THEN MulP(Abs(a), Abs(b)) ELSE -MulP(Abs(a), Abs(b))

\* floor(r * 10^k / y) for 0 <= r < y, digit by digit.
RECURSIVE DivFrac(_, _, _, _)
DivFrac(r, y, k, acc) ==
    IF k = 0 THEN acc
    ELSE DivFrac((r * 10) % y, y, k - 1, acc * 10 + ((r * 10) \div y))

\* (x * Scale) / y for x >= 0, y > 0.
DivP(x, y) == (x \div y) * Scale + DivFrac(x % y, y, 6, 0)

\* Float division x / y, y # 0.
Div(x, y) ==
    IF (x >= 0) = (y > 0) THEN DivP(Abs(x), Abs(y)) ELSE -DivP(Abs(x), Abs(y))

\* floor(sqrt(n)) of a plain integer n >= 1, by Newton's iteration from above.
RECURSIVE ISqrt(_, _)
ISqrt(n, y) ==
    LET z == (y + n \div y) \div 2
    IN  IF z >= y THEN y ELSE ISqrt(n, z)

RECURSIVE SqrtRefine(_, _, _)
SqrtRefine(x, y, k) ==
    IF k = 0 THEN y ELSE SqrtRefine(x, (y + DivP(x, y)) \div 2, k - 1)

\* math.sqrt(x) for x >= 0.
Sqrt(x) == IF x = 0 THEN 0 ELSE SqrtRefine(x, ISqrt(x, x) * Half, 3)

\* sin on [0, pi/4]: Taylor polynomial.
SinK(x) ==
    LET x2 == Mul(x, x)
        x3 == Mul(x2, x)
        x5 == Mul(x3, x2)
        x7 == Mul(x5, x2)
        x9 == Mul(x7, x2)
    IN  x - RDiv(x3, 6) + RDiv(x5, 120) - RDiv(x7, 5040) + RDiv(x9, 362880)

\* cos on [0, pi/4]: Taylor polynomial.
CosK(x) ==
    LET x2 == Mul(x, x)
        x4 == Mul(x2, x2)
        x6 == Mul(x4, x2)
        x8 == Mul(x4, x4)
        x10 == Mul(x8, x2)
    IN  Scale - RDiv(x2, 2) + RDiv(x4, 24) - RDiv(x6, 720) + RDiv(x8, 40320)
        - RDiv(x10, 3628800)

\* sin and cos on the first quadrant [0, pi/2].
SinQ(r) == IF r <= PI \div 4 THEN SinK(r) ELSE CosK(PI \div 2 - r)

CosQ(r) == IF r <= PI \div 4 THEN CosK(r) ELSE SinK(PI \div 2 - r)

\* math.sin(a)
Sin(a) ==
    LET m == a % (2 * PI)
        q == m \div (PI \div 2)
        r == m % (PI \div 2)
    IN  CASE q = 0 -> SinQ(r)
          [] q = 1 -> CosQ(r)
          [] q = 2 -> -SinQ(r)
          [] OTHER -> -CosQ(r)

\* math.cos(a)
Cos(a) ==
    LET m == a % (2 * PI)
        q == m \div (PI \div 2)
        r == m % (PI \div 2)
    IN  CASE q = 0 -> CosQ(r)
          [] q = 1 -> -SinQ(r)
          [] q = 2 -> -CosQ(r)
          [] OTHER -> SinQ(r)

\* atan on [0, tan(pi/8)]: Taylor polynomial, terms t^(2k+1)/(2k+1), k = 0..8.
RECURSIVE AtanK(_, _, _, _)
AtanK(p, t2, k, acc) ==
    IF k > 8 THEN acc
    ELSE AtanK(Mul(p, t2), t2, k + 1,
               IF k % 2 = 0 THEN acc + RDiv(p, 2 * k + 1)
                            ELSE acc - RDiv(p, 2 * k + 1))

\* atan on [0, 1]: atan(t) = pi/4 - atan((1 - t)/(1 + t)) above tan(pi/8).
Atan01(t) ==
    IF t <= 414214 THEN AtanK(t, Mul(t, t), 0, 0)
    ELSE LET s == DivP(Scale - t, Scale + t)
         IN  PI \div 4 - AtanK(s, Mul(s, s), 0, 0)

\* math.atan2(y, x)
Atan2(y, x) ==
    LET ay == Abs(y)
        ax == Abs(x)
        phi == IF ay = 0 /\ ax = 0 THEN 0
               ELSE IF ay <= ax THEN Atan01(DivP(ay, ax))
               ELSE PI \div 2 - Atan01(DivP(ax, ay))
    IN  IF x >= 0 THEN (IF y >= 0 THEN phi ELSE -phi)
        ELSE (IF y >= 0 THEN PI - phi ELSE phi - PI)

\* math.atan(b)
Atan(b) ==
    LET ab == Abs(b)
        phi == IF ab <= Scale THEN Atan01(ab)
               ELSE PI \div 2 - Atan01(DivP(Scale, ab))
    IN  IF b >= 0 THEN phi ELSE -phi

(***************************************************************************)
(* The functions of src/main.py.  A point is a pair <<x, y>>.              *)
(***************************************************************************)

\* distance(p1, p2)
distance(p1, p2) ==
    LET ex == p2[1] - p1[1]
        ey == p2[2] - p1[2]
    IN  Sqrt(Mul(ex, ex) + Mul(ey, ey))

\* end_angle after "if end_angle < start_angle: end_angle += 2*math.pi"
WrapEnd(start_angle, end_angle) ==
    IF end_angle < start_angle THEN end_angle + 2 * PI ELSE end_angle

\* round(a / b) as Python rounds, halves to the even neighbour; a >= 0, b > 0.
PyRound(a, b) ==
    LET q == a \div b
        r2 == 2 * (a % b)
    IN  IF r2 < b THEN q
        ELSE IF r2 > b THEN q + 1
        ELSE IF q % 2 = 0 THEN q ELSE q + 1

\* Variant of NumSegments: the quotient rounded to the nearest integer instead
\* of truncated.
NumSegments_Rounded(angle_range, degrees_per_segment) ==
    Max(1, PyRound(angle_range * 180, PI * degrees_per_segment))

\* Variant of NumSegments: the quotient taken the wrong way round,
\* int(degrees_per_segment / angle_range).
NumSegments_Inverted(angle_range, degrees_per_segment) ==
    IF angle_range = 0 THEN 1
    ELSE Max(1, (degrees_per_segment * Scale) \div angle_range)

\* max(1, int(math.degrees(angle_range) / degrees_per_segment)); angle_range is
\* an absolute value, so int() truncates downwards.  degrees_per_segment is a
\* whole number of degrees.
NumSegments(angle_range, degrees_per_segment) ==
    Max(1, (angle_range * 180) \div (PI * degrees_per_segment))

\* start_angle + (end_angle - start_angle) * i / num_segments
AngleAt(start_angle, end_angle, i, num_segments) ==
    LET dl == end_angle - start_angle
    IN  start_angle + (dl \div num_segments) * i
        + ((dl % num_segments) * i) \div num_segments

\* Variant of PointAt: y offset from center[0] instead of center[1].
PointAt_CentreIndex(angle, r, center) ==
    <<center[1] + Mul(r, Cos(angle)), center[1] + Mul(r, Sin(angle))>>

\* [center[0] + r*cos(angle), center[1] + r*sin(angle)]
PointAt(angle, r, center) ==
    <<center[1] + Mul(r, Cos(angle)), center[2] + Mul(r, Sin(angle))>>

\* Variant of ArcPoints: the loop runs over range(num_segments), dropping the
\* last point.
ArcPoints_OffByOne(start_angle, end_angle, r, center, degrees_per_segment) ==
    LET ea == IF end_angle < start_angle THEN end_angle + 2 * PI ELSE end_angle
        num_segments == Max(1, (Abs(ea - start_angle) * 180)
                                  \div (PI * degrees_per_segment))
    IN  [k \in 1..num_segments |->
            <<center[1] + Mul(r, Cos(start_angle
                  + ((ea - start_angle) * (k - 1)) \div num_segments)),
              center[2] + Mul(r, Sin(start_angle
                  + ((ea - start_angle) * (k - 1)) \div num_segments))>>]

\* arc_points(start_angle, end_angle, r, center, degrees_per_segment)
ArcPoints(start_angle, end_angle, r, center, degrees_per_segment) ==
    LET ea == WrapEnd(start_angle, end_angle)
        num_segments == NumSegments(Abs(ea - start_angle), degrees_per_segment)
    IN  [k \in 1..(num_segments + 1) |->
            PointAt(AngleAt(start_angle, ea, k - 1, num_segments), r, center)]

\* Variant of Theta: 2 * atan(b), the half angle.
Theta_TwoAtan(b) == 2 * Atan(b)

\* theta = 4 * math.atan(b)
Theta(b) == 4 * Atan(b)

\* Variant of Radius: denominator 2 * b instead of 4 * b.
Radius_TwoB(u, b) == Div(Mul(u, Mul(b, b) + Scale), 2 * b)

\* r = u * ((b**2) + 1) / (4 * b), b # 0
Radius(u, b) == Div(Mul(u, Mul(b, b) + Scale), 4 * b)

\* a = math.sqrt(r**2 - (u*u/4)), or 0 when the operand is negative
Apothem(r, u) ==
    LET operand == Mul(r, r) - RDiv(Mul(u, u), 4)
    IN  IF operand < 0 THEN 0 ELSE Sqrt(operand)

\* The centre C of the arc, for p1 # p2 and b # 0.
Centre(p1, p2, b) ==
    LET u == distance(p1, p2)
        a == Apothem(Radius(u, b), u)
        ex == Div(p2[1] - p1[1], u)
        ey == Div(p2[2] - p1[2], u)
        N == <<ey, -ex>>
        s == Sign(b)
        M == <<RDiv(p1[1] + p2[1], 2), RDiv(p1[2] + p2[2], 2)>>
    IN  IF Abs(Theta(b)) <= PI
        THEN <<M[1] - s * Mul(a, N[1]), M[2] - s * Mul(a, N[2])>>
        ELSE <<M[1] + s * Mul(a, N[1]), M[2] + s * Mul(a, N[2])>>

\* Variant of StartAngle: no pi added for a negative bulge.
StartAngle_NoPiShift(p1, C, b) == Atan2(p1[2] - C[2], p1[1] - C[1])

\* start_angle = atan2(p1 - C), plus pi for a negative bulge
StartAngle(p1, C, b) ==
    LET start_angle == Atan2(p1[2] - C[2], p1[1] - C[1])
    IN  IF b < 0 THEN start_angle + PI ELSE start_angle

\* What a call returns: the exception raised ("none" when it returns) and the
\* list of points returned.
Returned(points) == [err |-> "none", points |-> points]

Raised(e) == [err |-> e, points |-> <<>>]

\* arc_points_from_bulge(p1, p2, b, degrees_per_segment)
ArcPointsFromBulge(p1, p2, b, degrees_per_segment) ==
    IF b = 0 THEN Raised("ZeroDivisionError")
    ELSE IF distance(p1, p2) = 0 THEN Raised("ZeroDivisionError")
    ELSE LET C == Centre(p1, p2, b)
             start_angle == StartAngle(p1, C, b)
         IN  Returned(ArcPoints(start_angle, start_angle + Theta(b),
                                Radius(distance(p1, p2), b), C,
                                degrees_per_segment))

(***************************************************************************)
(* The functions of src/analysis/geometry.py.  An exception is named by    *)
(* its class, "none" when the call returns.  from_dxf and create_mesh are  *)
(* library calls: the log lists them in the order made, with the arguments *)
(* passed and what the library did ("ok" or the exception it raised).      *)
(***************************************************************************)

\* create_geometry_from_dxf's defaults: spline_delta=0.01 (in thousandths) and
\* degrees_per_segment=10.0.
DefaultSplineDelta == 10

DefaultDegreesPerSegment == 10

\* What Geometry.from_dxf, create_mesh and calculate_section_properties can do.
LibOutcomes == {"ok", "ImportError", "Exception"}

FromDxfEvent(path, sd, dps, outcome) ==
    [op |-> "from_dxf", path |-> path, spline_delta |-> sd,
     degrees_per_segment |-> dps, outcome |-> outcome]

MeshEvent(outcome) ==
    [op |-> "create_mesh", path |-> <<0, "">>, spline_delta |-> 0,
     degrees_per_segment |-> 0, outcome |-> outcome]

\* create_geometry_from_dxf(dxf_filepath, material, spline_delta,
\* degrees_per_segment): FileNotFoundError before the library is called, an
\* ImportError re-raised as ImportError, anything else as Exception.
CreateGeometryFromDxf(dxf_filepath, present, outcome, sd, dps) ==
    IF dxf_filepath \notin present
    THEN [err |-> "FileNotFoundError", log |-> <<>>]
    ELSE [err |-> IF outcome = "ok" THEN "none"
                  ELSE IF outcome = "ImportError" THEN "ImportError"
                  ELSE "Exception",
          log |-> <<FromDxfEvent(dxf_filepath, sd, dps, outcome)>>]

\* The loads of create_compound_geometry: components[0], then components[1:]
\* in order, each with the default import settings; the first exception ends
\* them.
RECURSIVE LoadFrom(_, _, _, _, _)
LoadFrom(comps, present, outcomes, i, log) ==
    IF i > Len(comps) THEN [err |-> "none", log |-> log]
    ELSE LET g == CreateGeometryFromDxf(comps[i][1], present, outcomes[i],
                                        DefaultSplineDelta,
                                        DefaultDegreesPerSegment)
         IN  IF g.err # "none" THEN [err |-> g.err, log |-> log \o g.log]
             ELSE LoadFrom(comps, present, outcomes, i + 1, log \o g.log)

\* Variant of CreateCompoundGeometry: the emptiness test sits inside the try
\* block, so its ValueError is wrapped like every other exception.
CreateCompoundGeometry_CheckInsideTry(comps, present, outcomes, meshOutcome) ==
    IF comps = <<>>
    THEN [err |-> "Exception", cause |-> "ValueError", log |-> <<>>]
    ELSE LET loaded == LoadFrom(comps, present, outcomes, 1, <<>>)
         IN  IF loaded.err # "none"
             THEN [err |-> "Exception", cause |-> loaded.err,
                   log |-> loaded.log]
             ELSE IF meshOutcome # "ok"
             THEN [err |-> "Exception", cause |-> meshOutcome,
                   log |-> Append(loaded.log, MeshEvent(meshOutcome))]
             ELSE [err |-> "none", cause |-> "none",
                   log |-> Append(loaded.log, MeshEvent("ok"))]

\* create_compound_geometry(components, mesh_size): err is the exception that
\* leaves the function, cause the exception first raised inside it.
CreateCompoundGeometry(comps, present, outcomes, meshOutcome) ==
    IF comps = <<>>
    THEN [err |-> "ValueError", cause |-> "ValueError", log |-> <<>>]
    ELSE LET loaded == LoadFrom(comps, present, outcomes, 1, <<>>)
         IN  IF loaded.err # "none"
             THEN [err |-> "Exception", cause |-> loaded.err,
                   log |-> loaded.log]
             ELSE IF meshOutcome # "ok"
             THEN [err |-> "Exception", cause |-> meshOutcome,
                   log |-> Append(loaded.log, MeshEvent(meshOutcome))]
             ELSE [err |-> "none", cause |-> "none",
                   log |-> Append(loaded.log, MeshEvent("ok"))]

(***************************************************************************)
(* The session of main().  Every step is one script run of the Streamlit   *)
(* application, started by one user action.                                *)
(***************************************************************************)

\* The cap on uuid4 draws, i.e. on components added in one session.
MaxAdds == 2

\* The cap on analyses that succeed in one session.
MaxAnalyses == 2

\* The values the "Spline delta" (thousandths) and "Degrees per segment"
\* sliders start at.
SplineDeltaSliderValue == 10

DegreesSliderValue == 10

\* Slider positions tried.
SplineDeltaChoices == {10, 50}

DegreesChoices == {10, 45}

\* Uploaded file names and materials tried.
Filenames == {"a.dxf", "b.dxf"}

Materials == {"steel"}

\* No create_compound_geometry call yet.
NoCg ==
    [caller |-> "none", components |-> <<>>, err |-> "none",
     cause |-> "none", log |-> <<>>]

(***************************************************************************)
(* The calls made on one segment.  call is the call last made, ret what it *)
(* returned, prev the call made before it with its result: after the first *)
(* call the same segment may be expanded once more, reversed or at a       *)
(* coarser resolution.                                                     *)
(***************************************************************************)

\* Coordinates run over 0, 10, ..., 10 * MaxCoord.
MaxCoord == 1

\* How many entries of BulgeList, each with both signs, are drawn.
NumBulges == 3

\* How many entries of DegList are drawn.
NumDegs == 3

BulgeList == <<1000000, 267900, 2000000, 500000, 3000000>>

DegList == <<90, 10, 45, 30, 20>>

Coords == {10 * Scale * k : k \in 0..MaxCoord}

Points == Coords \X Coords

Bulges == {0} \cup {BulgeList[i] : i \in 1..NumBulges}
              \cup {-BulgeList[i] : i \in 1..NumBulges}

Degs == {DegList[i] : i \in 1..NumDegs}

\* Angles and radii of the direct calls of arc_points.
Angles == {k * (PI \div 4) : k \in -3..4}

Radii == {5 * Scale}

BulgeCall(p1, p2, b, d) ==
    [fn |-> "arc_points_from_bulge", p1 |-> p1, p2 |-> p2, b |-> b,
     start_angle |-> 0, end_angle |-> 0, r |-> 0, center |-> <<0, 0>>,
     degrees_per_segment |-> d]

ArcCall(start_angle, end_angle, r, center, d) ==
    [fn |-> "arc_points", p1 |-> <<0, 0>>, p2 |-> <<0, 0>>, b |-> 0,
     start_angle |-> start_angle, end_angle |-> end_angle, r |-> r,
     center |-> center, degrees_per_segment |-> d]

NoCall ==
    [fn |-> "none", p1 |-> <<0, 0>>, p2 |-> <<0, 0>>, b |-> 0,
     start_angle |-> 0, end_angle |-> 0, r |-> 0, center |-> <<0, 0>>,
     degrees_per_segment |-> 0]

NoPrev == [call |-> NoCall, ret |-> Returned(<<>>)]

\* The importer is patched and none of its functions called yet; the session
\* has just started: no component, no stored result, sliders at their
\* defaults.
Init ==
    /\ call = NoCall
    /\ ret = Returned(<<>>)
    /\ prev = NoPrev
    /\ components = <<>>
    /\ files = {}
    /\ uuids = 0
    /\ added = {}
    /\ removed = {}
    /\ slider_spline_delta = SplineDeltaSliderValue
    /\ slider_degrees_per_segment = DegreesSliderValue
    /\ section = 0
    /\ properties = 0
    /\ analyses = 0
    /\ message = "none"
    /\ cg = NoCg

\* The importer expands one bulge-tagged polyline segment.
CallArcPointsFromBulge ==
    \E p1 \in Points, p2 \in Points, b \in Bulges, d \in Degs :
        /\ call.fn = "none"
        /\ call' = BulgeCall(p1, p2, b, d)
        /\ ret' = ArcPointsFromBulge(p1, p2, b, d)
        /\ prev' = NoPrev
        /\ UNCHANGED sessVars

\* A direct call of arc_points.
CallArcPoints ==
    \E sa \in Angles, ea \in Angles, r \in Radii, c \in Points, d \in Degs :
        /\ call.fn = "none"
        /\ call' = ArcCall(sa, ea, r, c, d)
        /\ ret' = Returned(ArcPoints(sa, ea, r, c, d))
        /\ prev' = NoPrev
        /\ UNCHANGED sessVars

\* The same segment again, traversed from its other end: endpoints swapped,
\* bulge negated.
CallReversed ==
    /\ call.fn = "arc_points_from_bulge"
    /\ prev.call.fn = "none"
    /\ call' = BulgeCall(call.p2, call.p1, -call.b, call.degrees_per_segment)
    /\ ret' = ArcPointsFromBulge(call.p2, call.p1, -call.b,
                                 call.degrees_per_segment)
    /\ prev' = [call |-> call, ret |-> ret]
    /\ UNCHANGED sessVars

\* The same segment again at an equal or coarser resolution.
CallCoarser ==
    /\ call.fn = "arc_points_from_bulge"
    /\ prev.call.fn = "none"
    /\ \E d2 \in Degs :
        /\ d2 >= call.degrees_per_segment
        /\ call' = BulgeCall(call.p1, call.p2, call.b, d2)
        /\ ret' = ArcPointsFromBulge(call.p1, call.p2, call.b, d2)
        /\ prev' = [call |-> call, ret |-> ret]
        /\ UNCHANGED sessVars

ArcNext ==
    \/ CallArcPointsFromBulge
    \/ CallArcPoints
    \/ CallReversed
    \/ CallCoarser

ArcSpec == Init /\ [][ArcNext]_vars

(***************************************************************************)
(* The user actions of main() and the direct calls of                      *)
(* create_compound_geometry.                                               *)
(***************************************************************************)

\* Variant of UniqueFilePath: the upload's own name, without the uuid4 prefix.
UniqueFilePath_NoUuid(uuid, filename) == <<0, filename>>

\* os.path.join(temp_dir, f"{uuid.uuid4().hex}_{dxf_file.name}"): a path is
\* the pair of the uuid drawn and the upload's name.
UniqueFilePath(uuid, filename) == <<uuid, filename>>

\* The entry appended to section_components.
Component(path, material, filename) ==
    [path |-> path, material |-> material, filename |-> filename]

\* list.pop(idx) with idx = k - 1.
RemoveAt(seq, k) == SubSeq(seq, 1, k - 1) \o SubSeq(seq, k + 1, Len(seq))

\* [(comp["path"], DEFAULT_MATERIALS[comp["material"]]) for comp in ...]
ComponentTuples(comps) ==
    [i \in 1..Len(comps) |-> <<comps[i].path, comps[i].material>>]

\* The except clauses of main(): the message shown for an exception class.
FailureMessage(err) ==
    IF err = "ImportError" THEN "Import error" ELSE "Analysis failed"

\* Variant of AnalyzeSection: the section is stored as soon as the geometry is
\* meshed, before the properties are calculated.
AnalyzeSection_StoreEarly(comps, present, run, sec, props, n) ==
    LET g == CreateCompoundGeometry(ComponentTuples(comps), present,
                                    run.outcomes, run.mesh)
        made == [caller |-> "main", components |-> ComponentTuples(comps),
                 err |-> g.err, cause |-> g.cause, log |-> g.log]
    IN  IF g.err # "none"
        THEN [section |-> sec, properties |-> props, analyses |-> n,
              message |-> FailureMessage(g.err), cg |-> made]
        ELSE IF run.calc # "ok"
        THEN [section |-> n + 1, properties |-> props, analyses |-> n,
              message |-> FailureMessage(run.calc), cg |-> made]
        ELSE [section |-> n + 1, properties |-> n + 1, analyses |-> n + 1,
              message |-> "Analysis completed successfully!", cg |-> made]

\* The body of "if analyze_button:" for a non-empty component list: what the
\* session holds and shows afterwards.  run is what the libraries do; sec,
\* props and n are the stored section, the stored properties and the number
\* of analyses that succeeded before.
AnalyzeSection(comps, present, run, sec, props, n) ==
    LET g == CreateCompoundGeometry(ComponentTuples(comps), present,
                                    run.outcomes, run.mesh)
        made == [caller |-> "main", components |-> ComponentTuples(comps),
                 err |-> g.err, cause |-> g.cause, log |-> g.log]
    IN  IF g.err # "none"
        THEN [section |-> sec, properties |-> props, analyses |-> n,
              message |-> FailureMessage(g.err), cg |-> made]
        ELSE IF run.calc # "ok"
        THEN [section |-> sec, properties |-> props, analyses |-> n,
              message |-> FailureMessage(run.calc), cg |-> made]
        ELSE [section |-> n + 1, properties |-> n + 1, analyses |-> n + 1,
              message |-> "Analysis completed successfully!", cg |-> made]

\* The user moves the two import sliders.
SetImportSliders ==
    \E sd \in SplineDeltaChoices, dps \in DegreesChoices :
        /\ <<sd, dps>> # <<slider_spline_delta, slider_degrees_per_segment>>
        /\ slider_spline_delta' = sd
        /\ slider_degrees_per_segment' = dps
        /\ message' = "none"
        /\ UNCHANGED <<components, files, uuids, added, removed, section,
                       properties, analyses, cg>>
        /\ UNCHANGED arcVars

\* "Add Component" with a file uploaded.
AddComponent ==
    \E filename \in Filenames, material \in Materials :
        /\ uuids < MaxAdds
        /\ LET path == UniqueFilePath(uuids + 1, filename)
           IN  /\ files' = files \cup {path}
               /\ components' =
                     Append(components, Component(path, material, filename))
        /\ uuids' = uuids + 1
        /\ added' = added \cup {uuids + 1}
        /\ message' = "Added component"
        /\ UNCHANGED <<removed, slider_spline_delta,
                       slider_degrees_per_segment, section, properties,
                       analyses, cg>>
        /\ UNCHANGED arcVars

\* "Remove Selected Component" with entry k selected.
RemoveComponent ==
    \E k \in 1..Len(components) :
        /\ files' = files \ {components[k].path}
        /\ components' = RemoveAt(components, k)
        /\ removed' = removed \cup {components[k].path[1]}
        /\ message' = "Component removed."
        /\ UNCHANGED <<uuids, added, slider_spline_delta,
                       slider_degrees_per_segment, section, properties,
                       analyses, cg>>
        /\ UNCHANGED arcVars

\* "Analyze Section" with no component in the list.
AnalyzeEmpty ==
    /\ Len(components) = 0
    /\ message' = "Please add at least one component before analyzing."
    /\ UNCHANGED <<components, files, uuids, added, removed,
                   slider_spline_delta, slider_degrees_per_segment, section,
                   properties, analyses, cg>>
    /\ UNCHANGED arcVars

\* What the libraries do during one analysis of n components: every load,
\* the meshing and the property calculation succeed, or one of them raises.
\* What a call after the first exception would have done is never consulted,
\* so it is fixed to "ok".
LibraryRuns(n) ==
    LET allOk == [i \in 1..n |-> "ok"]
    IN  {[outcomes |-> [i \in 1..n |-> IF i = f THEN kind ELSE "ok"],
          mesh |-> "ok", calc |-> "ok"] :
             f \in 1..n, kind \in LibOutcomes \ {"ok"}}
        \cup {[outcomes |-> allOk, mesh |-> "Exception", calc |-> "ok"]}
        \cup {[outcomes |-> allOk, mesh |-> "ok", calc |-> c] :
                 c \in LibOutcomes}

\* "Analyze Section" with components: the libraries behave in any way.
Analyze ==
    \E run \in LibraryRuns(Len(components)) :
        /\ Len(components) > 0
        /\ LET a == AnalyzeSection(components, files, run, section,
                                   properties, analyses)
           IN  /\ a.analyses <= MaxAnalyses
               /\ section' = a.section
               /\ properties' = a.properties
               /\ analyses' = a.analyses
               /\ message' = a.message
               /\ cg' = a.cg
        /\ UNCHANGED <<components, files, uuids, added, removed,
                       slider_spline_delta, slider_degrees_per_segment>>
        /\ UNCHANGED arcVars

\* Component lists of the direct calls: up to two of these entries.
DirectEntries == {<<<<1, "a.dxf">>, "steel">>, <<<<2, "b.dxf">>, "timber">>}

DirectLists ==
    {<<>>} \cup {<<e>> : e \in DirectEntries}
           \cup {<<e, f>> : e \in DirectEntries, f \in DirectEntries}

\* create_compound_geometry called directly, outside a script run, before any
\* analysis of the session.
CallCreateCompoundGeometry ==
    \E comps \in DirectLists :
        \E run \in {r \in LibraryRuns(Len(comps)) : r.calc = "ok"} :
            /\ cg.caller = "none"
            /\ LET g == CreateCompoundGeometry(comps, files, run.outcomes,
                                               run.mesh)
               IN  cg' = [caller |-> "direct", components |-> comps,
                          err |-> g.err, cause |-> g.cause, log |-> g.log]
            /\ UNCHANGED <<components, files, uuids, added, removed,
                           slider_spline_delta, slider_degrees_per_segment,
                           section, properties, analyses, message>>
            /\ UNCHANGED arcVars

Next ==
    \/ SetImportSliders
    \/ AddComponent
    \/ RemoveComponent
    \/ AnalyzeEmpty
    \/ Analyze
    \/ CallCreateCompoundGeometry

Spec == Init /\ [][Next]_vars

(***************************************************************************)
(* Properties.                                                             *)
(***************************************************************************)

\* Two points agree within tolerance.
Near(p, q) == Abs(p[1] - q[1]) <= Tol /\ Abs(p[2] - q[2]) <= Tol

\* The last call was arc_points_from_bulge on distinct endpoints with a
\* nonzero bulge.
ValidBulgeCall ==
    /\ call.fn = "arc_points_from_bulge"
    /\ call.p1 # call.p2
    /\ call.b # 0

\* The last call expanded the segment of the call before it from its other end.
ReversedOfPrev ==
    /\ ValidBulgeCall
    /\ prev.call.fn = "arc_points_from_bulge"
    /\ call.p1 = prev.call.p2
    /\ call.p2 = prev.call.p1
    /\ call.b = -prev.call.b
    /\ call.degrees_per_segment = prev.call.degrees_per_segment

\* The last call expanded the segment of the call before it at an equal or
\* larger degrees_per_segment.
CoarserThanPrev ==
    /\ ValidBulgeCall
    /\ prev.call.fn = "arc_points_from_bulge"
    /\ call.p1 = prev.call.p1
    /\ call.p2 = prev.call.p2
    /\ call.b = prev.call.b
    /\ prev.call.degrees_per_segment <= call.degrees_per_segment

\* z-component of (p - c) x (q - c): positive when q is counter-clockwise
\* of p as seen from c.
Cross(c, p, q) ==
    Mul(p[1] - c[1], q[2] - c[2]) - Mul(p[2] - c[2], q[1] - c[1])

\* The sweep arc_points traverses in the last (direct) call, after the
\* wrap-around adjustment.
DirectSweep ==
    Abs((IF call.end_angle < call.start_angle
         THEN call.end_angle + 2 * PI ELSE call.end_angle) - call.start_angle)

\* The points of the last (direct) call lie at the angles interpolated linearly
\* from start_angle to the adjusted end_angle in n segments.
DirectInterpolated(n) ==
    LET ea == IF call.end_angle < call.start_angle
              THEN call.end_angle + 2 * PI ELSE call.end_angle
    IN  /\ Len(ret.points) = n + 1
        /\ \A k \in 1..Len(ret.points) :
              LET angle == call.start_angle
                           + ((ea - call.start_angle) * (k - 1)) \div n
              IN  ret.points[k] =
                      <<call.center[1] + Mul(call.r, Cos(angle)),
                        call.center[2] + Mul(call.r, Sin(angle))>>

\* C1: for distinct endpoints and a nonzero bulge of either sign, the returned
\* sequence starts at p1 and ends at p2, within tolerance.
C1_EndpointsPreserved ==
    ValidBulgeCall =>
        /\ ret.err = "none"
        /\ Len(ret.points) >= 2
        /\ Near(ret.points[1], call.p1)
        /\ Near(ret.points[Len(ret.points)], call.p2)

\* C1 witness: a clockwise (negative-bulge) arc of more than a half turn on a
\* diagonal chord has been expanded.
C1_Witness ==
    /\ ValidBulgeCall
    /\ call.b = -2000000
    /\ call.p1 = <<0, 10 * Scale>>
    /\ call.p2 = <<10 * Scale, 0>>
    /\ Len(ret.points) >= 3

\* C2: expanding the reversed segment (p2, p1, -bulge, d) returns the points of
\* the forward expansion in reverse order: same count, same locations.
C2_ReversalSymmetry ==
    ReversedOfPrev =>
        /\ Len(ret.points) = Len(prev.ret.points)
        /\ \A k \in 1..Len(ret.points) :
              Near(ret.points[k], prev.ret.points[Len(ret.points) + 1 - k])

\* C3: the arc sweeps |theta| = 4*atan(|bulge|), counter-clockwise from p1 for a
\* positive bulge and clockwise for a negative one; the segment count comes
\* from |theta|, not from 2*pi - |theta|.
C3_SweepIsTheta ==
    ValidBulgeCall =>
        /\ Len(ret.points) - 1 =
              Max(1, (Abs(Theta(call.b)) * 180)
                        \div (PI * call.degrees_per_segment))
        /\ Len(ret.points) >= 3 =>
              LET C == Centre(call.p1, call.p2, call.b)
                  turn == Cross(C, ret.points[1], ret.points[2])
              IN  IF call.b > 0 THEN turn > 0 ELSE turn < 0

\* C4 as stated: arc_points emits max(1, round(sweep in degrees /
\* degrees_per_segment)) segments, num_segments + 1 points at linearly
\* interpolated angles.
C4_RoundedSegmentCount ==
    call.fn = "arc_points" =>
        DirectInterpolated(
            Max(1, PyRound(DirectSweep * 180, PI * call.degrees_per_segment)))

\* C4 amended: arc_points emits max(1, floor(sweep in degrees /
\* degrees_per_segment)) segments (the quotient is truncated, not rounded),
\* and returns num_segments + 1 points at angles linearly interpolated from
\* start_angle to the adjusted end_angle inclusive.
C4_TruncatedSegmentCount ==
    call.fn = "arc_points" =>
        DirectInterpolated(
            Max(1, (DirectSweep * 180) \div (PI * call.degrees_per_segment)))

\* C4 witness: a sweep of 1.5 times degrees_per_segment or more was expanded
\* into a single segment.
C4_Witness ==
    /\ call.fn = "arc_points"
    /\ 2 * DirectSweep * 180 >= 3 * PI * call.degrees_per_segment
    /\ Len(ret.points) = 2

\* C5: coincident endpoints with a nonzero bulge fail with a
\* DegenerateSegmentError and return no points.
C5_DegenerateSegmentError ==
    (call.fn = "arc_points_from_bulge" /\ call.p1 = call.p2 /\ call.b # 0) =>
        /\ ret.err = "DegenerateSegmentError"
        /\ ret.points = <<>>

\* The call of the first concrete scenario: (0,0)-(10,0), bulge 1.0, 90 degrees
\* per segment.
SemicircleCall ==
    call = BulgeCall(<<0, 0>>, <<10 * Scale, 0>>, Scale, 90)

\* The centre, radius and count of the semicircle scenario: centre (5,0),
\* radius 5, two segments, ends at (0,0) and (10,0).
SemicircleFrame ==
    /\ Centre(call.p1, call.p2, call.b) = <<5 * Scale, 0>>
    /\ Radius(distance(call.p1, call.p2), call.b) = 5 * Scale
    /\ ret.err = "none"
    /\ Len(ret.points) = 3
    /\ Near(ret.points[1], <<0, 0>>)
    /\ Near(ret.points[3], <<10 * Scale, 0>>)

\* C6 as stated: the semicircle scenario returns (0,0), (5,5), (10,0) with
\* centre (5,0), radius 5 and two segments.
C6_SemicircleThroughUpperPoint ==
    SemicircleCall =>
        SemicircleFrame /\ Near(ret.points[2], <<5 * Scale, 5 * Scale>>)

\* C6 amended: the semicircle scenario has centre (5,0), radius 5 and two
\* segments, and returns (0,0), (5,-5), (10,0) in that order: the
\* counter-clockwise semicircle from p1 to p2 passes below the chord.
C6_SemicircleThroughLowerPoint ==
    SemicircleCall =>
        SemicircleFrame /\ Near(ret.points[2], <<5 * Scale, -5 * Scale>>)

\* C6 witness: the semicircle scenario has been run and returned.
C6_Witness == SemicircleCall /\ Len(ret.points) > 0

\* The call of the third concrete scenario: (0,0)-(10,0), bulge 0.2679, 10
\* degrees per segment.
SixthTurnCall ==
    call = BulgeCall(<<0, 0>>, <<10 * Scale, 0>>, 267900, 10)

\* C7 as stated: the scenario returns 10 points on an arc of radius about
\* 5.878 that bulges upward (interior points above the chord).
C7_TenPointsBulgingUp ==
    SixthTurnCall =>
        /\ Len(ret.points) = 10
        /\ Abs(Abs(Radius(distance(call.p1, call.p2), call.b)) - 5878000)
              <= 1000
        /\ \A k \in 2..(Len(ret.points) - 1) : ret.points[k][2] > 0

\* C7 amended: the scenario returns 6 points (theta is just under 60 degrees,
\* five segments) on an arc of radius about 10.002 that bulges downward, i.e.
\* to the right of the chord direction for a positive bulge.
C7_SixPointsBulgingDown ==
    SixthTurnCall =>
        /\ Len(ret.points) = 6
        /\ Abs(Abs(Radius(distance(call.p1, call.p2), call.b)) - 10001600)
              <= 1000
        /\ \A k \in 2..(Len(ret.points) - 1) : ret.points[k][2] < 0

\* C7 witness: the scenario has been run and returned interior points.
C7_Witness == SixthTurnCall /\ Len(ret.points) > 2

\* C8: for distinct endpoints and a nonzero bulge of either sign, every
\* returned point lies at distance |r| from the computed centre C, within
\* tolerance.
C8_PointsOnCircle ==
    ValidBulgeCall =>
        \A k \in 1..Len(ret.points) :
            Abs(distance(Centre(call.p1, call.p2, call.b), ret.points[k])
                - Abs(Radius(distance(call.p1, call.p2), call.b))) <= Tol

\* C8 witness: an arc whose centre is off the chord and off the diagonal
\* x = y has been expanded into several points.
C8_Witness ==
    /\ ValidBulgeCall
    /\ call.b = -267900
    /\ call.p1 = <<0, 0>>
    /\ call.p2 = <<10 * Scale, 0>>
    /\ Len(ret.points) >= 4

\* C9: for fixed p1, p2 and bulge, a larger degrees_per_segment never returns
\* more points.
C9_CountMonotone ==
    CoarserThanPrev => Len(ret.points) <= Len(prev.ret.points)

\* C9 witness: a strictly coarser second expansion returned strictly fewer
\* points.
C9_Witness ==
    /\ CoarserThanPrev
    /\ prev.call.degrees_per_segment < call.degrees_per_segment
    /\ Len(ret.points) < Len(prev.ret.points)

\* C10: arc_points with equal start and end angle returns exactly 2 points,
\* both at c + r*(cos a, sin a); and no call returns fewer than 2 points.
C10_AtLeastTwoPoints ==
    /\ call.fn = "arc_points" => Len(ret.points) >= 2
    /\ (call.fn = "arc_points_from_bulge" /\ ret.err = "none") =>
          Len(ret.points) >= 2
    /\ (call.fn = "arc_points" /\ call.start_angle = call.end_angle) =>
          /\ Len(ret.points) = 2
          /\ ret.points[1] = ret.points[2]
          /\ ret.points[1] =
                <<call.center[1] + Mul(call.r, Cos(call.start_angle)),
                  call.center[2] + Mul(call.r, Sin(call.start_angle))>>

\* C10 witness: a zero-sweep direct call at a nonzero angle has returned.
C10_Witness ==
    /\ call.fn = "arc_points"
    /\ call.start_angle = call.end_angle
    /\ call.start_angle = PI \div 4
    /\ Len(ret.points) = 2

(***************************************************************************)
(* Properties of create_compound_geometry and of the session.              *)
(***************************************************************************)

IsLoad(e) == e.op = "from_dxf"

IsMesh(e) == e.op = "create_mesh"

\* The Geometry.from_dxf calls and the create_mesh calls of a log, in order.
Loads(log) == SelectSeq(log, IsLoad)

Meshes(log) == SelectSeq(log, IsMesh)

\* What a script run that analysed components can end by showing.
AnalysisMessages ==
    {"Analysis completed successfully!", "Import error", "Analysis failed"}

\* The last script run was an analysis of the components, and cg is its
\* create_compound_geometry call.
JustAnalyzed == cg.caller = "main" /\ message \in AnalysisMessages

\* C11: create_compound_geometry called with an empty list raises ValueError
\* itself, not wrapped, having loaded no DXF file and created no mesh; called
\* with a non-empty list it loads the components in list order, stops at the
\* first load that raises, and creates the mesh exactly once, after every
\* component was loaded.
C11_EmptyRaisesElseLoadsInOrderMeshesOnce ==
    cg.caller # "none" =>
        LET comps == cg.components
            loads == Loads(cg.log)
            meshes == Meshes(cg.log)
        IN  /\ comps = <<>> => cg.err = "ValueError" /\ cg.log = <<>>
            /\ comps # <<>> =>
                  /\ cg.err # "ValueError"
                  /\ Len(loads) <= Len(comps)
                  /\ \A i \in 1..Len(loads) : loads[i].path = comps[i][1]
                  /\ \A i \in 1..(Len(loads) - 1) : loads[i].outcome = "ok"
                  /\ cg.log = loads \o meshes
                  /\ Len(meshes) <= 1
                  /\ Len(meshes) = 1 =>
                        /\ Len(loads) = Len(comps)
                        /\ loads[Len(loads)].outcome = "ok"
                  /\ cg.err = "none" =>
                        /\ Len(meshes) = 1
                        /\ meshes[1].outcome = "ok"

\* C11 witness: the direct call with the empty list has raised ValueError.
C11_Witness ==
    /\ cg.caller = "direct"
    /\ cg.components = <<>>
    /\ cg.err = "ValueError"
    /\ cg.log = <<>>

\* C12: when the load of a component raised ImportError during an analysis,
\* the exception main catches is an ImportError and the run shows the
\* "Import error" message.
C12_ImportErrorReachesMain ==
    (/\ JustAnalyzed
     /\ Loads(cg.log) # <<>>
     /\ Loads(cg.log)[Len(Loads(cg.log))].outcome = "ImportError")
        => cg.err = "ImportError" /\ message = "Import error"

\* C13: every component of an analysis is imported with the spline delta and
\* the degrees per segment the sliders are set to.
C13_SlidersReachImporter ==
    JustAnalyzed =>
        \A i \in 1..Len(Loads(cg.log)) :
            /\ Loads(cg.log)[i].spline_delta = slider_spline_delta
            /\ Loads(cg.log)[i].degrees_per_segment =
                  slider_degrees_per_segment

\* The uuid draws of the listed components, in list order.
ListedUuids == [i \in 1..Len(components) |-> components[i].path[1]]

\* The list holds the added and not yet removed components in order of
\* addition, under pairwise distinct paths of existing files.
ListHoldsLiveComponents ==
    /\ {ListedUuids[i] : i \in 1..Len(components)} = added \ removed
    /\ \A i, j \in 1..Len(components) :
          i < j => ListedUuids[i] < ListedUuids[j]
    /\ \A i, j \in 1..Len(components) :
          i # j => components[i].path # components[j].path
    /\ \A i \in 1..Len(components) : components[i].path \in files

\* A step that shortens the list removes one entry k and the file of entry k,
\* and nothing else.
RemovesOneEntryAndItsFile ==
    Len(components') < Len(components) =>
        \E k \in 1..Len(components) :
            /\ Len(components') = Len(components) - 1
            /\ \A i \in 1..(k - 1) : components'[i] = components[i]
            /\ \A i \in k..Len(components') : components'[i] = components[i + 1]
            /\ components[k].path \notin files'
            /\ files' \cup {components[k].path} = files

\* C14: after any adds and removes the list holds exactly the added and not
\* yet removed components in order of addition, their paths are pairwise
\* distinct and name existing files; a removal deletes only the entry chosen
\* and its file.
C14_ListHoldsLiveComponents ==
    [](ListHoldsLiveComponents) /\ [][RemovesOneEntryAndItsFile]_vars

\* C14 witness: two uploads of the same name were added and the first was
\* removed; the second is still listed and its file exists.
C14_Witness ==
    /\ added = {1, 2}
    /\ removed = {1}
    /\ Len(components) = 1
    /\ components[1].path = UniqueFilePath(2, "a.dxf")
    /\ components[1].filename = "a.dxf"
    /\ UniqueFilePath(2, "a.dxf") \in files
    /\ message = "Component removed."

\* Section and properties are stored together, by the same analysis.
StoredTogether ==
    /\ (section = 0) <=> (properties = 0)
    /\ section = properties

\* A run that ends with the zero-components error or with an analysis error
\* leaves the stored section and properties as they were.
FailedRunKeepsResults ==
    message' \in {"Please add at least one component before analyzing.",
                  "Import error", "Analysis failed"}
        => section' = section /\ properties' = properties

\* C15: section is stored exactly when properties is, both by the same
\* successful analysis; Analyze with zero components and an analysis that
\* raises leave the stored section and properties unchanged.
C15_ResultsStoredTogether ==
    [](StoredTogether) /\ [][FailedRunKeepsResults]_vars

\* C15 witness: an analysis failed after an earlier one had stored its
\* results, and those are still stored.
C15_Witness ==
    /\ section = 1
    /\ properties = 1
    /\ analyses = 1
    /\ JustAnalyzed
    /\ message = "Analysis failed"

====
